---- MODULE Spec2Model ----
(***************************************************************************)
(* Model of package meta (src/meta/meta.go): FLAC metadata block headers   *)
(* and the block lifecycle NewBlock -> Parse | Skip over one stream        *)
(* cursor.  The stream is a finite sequence of bytes; pos is the cursor    *)
(* of the io.Reader the blocks share.                                      *)
(***************************************************************************)
EXTENDS Integers, Sequences, FiniteSets, TLC

VARIABLES stream, seekable, layout, pos, pc, block, hdrOff, err, diag,
          headers, lastOp, bodyStep, nread, deleg

vars == <<stream, seekable, layout, pos, pc, block, hdrOff, err, diag,
          headers, lastOp, bodyStep, nread, deleg>>

----------------------------------------------------------------------------
(* Bounds of the model. *)

\* largest declared body length of the blocks whose bodies are enumerated
MaxLen == 3
\* largest number of bytes a body decoder asks for, besides L and L + 1
MaxReq == 4
\* number of audio bytes that follow the metadata section
AudioLen == 2

\* largest value of the 24-bit length field
MaxLength == 16777215

Min2(a, b) == IF a <= b THEN a ELSE b

Min3(a, b, c) == Min2(a, Min2(b, c))

RECURSIVE Pow2(_)
Pow2(n) == IF n = 0 THEN 1 ELSE 2 * Pow2(n - 1)

----------------------------------------------------------------------------
(* Block types, 1 << iota. *)

TypeStreamInfo == 1
TypePadding == 2
TypeApplication == 4
TypeSeekTable == 8
TypeVorbisComment == 16
TypeCueSheet == 32
TypePicture == 64
TypeReserved == 128

\* the values of the BlockType constants
BlockTypes == {TypeStreamInfo, TypePadding, TypeApplication, TypeSeekTable,
               TypeVorbisComment, TypeCueSheet, TypePicture, TypeReserved}

\* the nil *Block and the nil *BlockHeader
Nil == [nil |-> TRUE]

\* Block.Body: nil, the value a body decoder returned, or the raw bytes
NilBody == [kind |-> "nil", by |-> "", raw |-> <<>>]

ParsedBody(decoder) == [kind |-> "parsed", by |-> decoder, raw |-> <<>>]

RawBody(bytes) == [kind |-> "raw", by |-> "ReadAll", raw |-> bytes]

----------------------------------------------------------------------------
(* The bit reader: fields of the given widths, MSB first, out of bytes.    *)

\* bit i (0 = most significant bit of the first byte) of a byte sequence
BitAt(bytes, i) == (bytes[(i \div 8) + 1] \div Pow2(7 - (i % 8))) % 2

\* the unsigned integer held by the width bits that start at bit start
RECURSIVE ReadField(_, _, _)
ReadField(bytes, start, width) ==
    IF width = 0 THEN 0
    ELSE 2 * ReadField(bytes, start, width - 1) + BitAt(bytes, start + width - 1)

\* br.ReadFields(1, 7, 24) over the four header bytes
ReadFields(bytes) ==
    <<ReadField(bytes, 0, 1), ReadField(bytes, 1, 7), ReadField(bytes, 8, 24)>>

\* bytes left between offset p and the end of the stream
Avail(s, p) == IF p >= Len(s) THEN 0 ELSE Len(s) - p

----------------------------------------------------------------------------
(* ParseBlockHeader. *)

\* BlockTypeOfCode with the case for code 6 left out
BlockTypeOfCodeNoPicture(c) ==
    CASE c = 0 -> [type |-> TypeStreamInfo, err |-> "nil", log |-> <<>>]
      [] c = 1 -> [type |-> TypePadding, err |-> "nil", log |-> <<>>]
      [] c = 2 -> [type |-> TypeApplication, err |-> "nil", log |-> <<>>]
      [] c = 3 -> [type |-> TypeSeekTable, err |-> "nil", log |-> <<>>]
      [] c = 4 -> [type |-> TypeVorbisComment, err |-> "nil", log |-> <<>>]
      [] c = 5 -> [type |-> TypeCueSheet, err |-> "nil", log |-> <<>>]
      [] OTHER -> IF c >= 7 /\ c <= 126
                  THEN [type |-> TypeReserved, err |-> "nil", log |-> <<c % 256>>]
                  ELSE [type |-> 0, err |-> "invalid block type", log |-> <<>>]

\* BlockTypeOfCode with the reserved range tested as blockType >= 7 only
BlockTypeOfCodeNoUpper(c) ==
    CASE c = 0 -> [type |-> TypeStreamInfo, err |-> "nil", log |-> <<>>]
      [] c = 1 -> [type |-> TypePadding, err |-> "nil", log |-> <<>>]
      [] c = 2 -> [type |-> TypeApplication, err |-> "nil", log |-> <<>>]
      [] c = 3 -> [type |-> TypeSeekTable, err |-> "nil", log |-> <<>>]
      [] c = 4 -> [type |-> TypeVorbisComment, err |-> "nil", log |-> <<>>]
      [] c = 5 -> [type |-> TypeCueSheet, err |-> "nil", log |-> <<>>]
      [] c = 6 -> [type |-> TypePicture, err |-> "nil", log |-> <<>>]
      [] OTHER -> IF c >= 7
                  THEN [type |-> TypeReserved, err |-> "nil", log |-> <<c % 256>>]
                  ELSE [type |-> 0, err |-> "invalid block type", log |-> <<>>]

\* BlockTypeOfCode with the log line carrying the block type, not the code
BlockTypeOfCodeLogsType(c) ==
    CASE c = 0 -> [type |-> TypeStreamInfo, err |-> "nil", log |-> <<>>]
      [] c = 1 -> [type |-> TypePadding, err |-> "nil", log |-> <<>>]
      [] c = 2 -> [type |-> TypeApplication, err |-> "nil", log |-> <<>>]
      [] c = 3 -> [type |-> TypeSeekTable, err |-> "nil", log |-> <<>>]
      [] c = 4 -> [type |-> TypeVorbisComment, err |-> "nil", log |-> <<>>]
      [] c = 5 -> [type |-> TypeCueSheet, err |-> "nil", log |-> <<>>]
      [] c = 6 -> [type |-> TypePicture, err |-> "nil", log |-> <<>>]
      [] OTHER -> IF c >= 7 /\ c <= 126
                  THEN [type |-> TypeReserved, err |-> "nil",
                        log |-> <<TypeReserved % 256>>]
                  ELSE [type |-> 0, err |-> "invalid block type", log |-> <<>>]

\* the switch on fields[1]: the block type, the error and the log line
BlockTypeOfCode(c) ==
    CASE c = 0 -> [type |-> TypeStreamInfo, err |-> "nil", log |-> <<>>]
      [] c = 1 -> [type |-> TypePadding, err |-> "nil", log |-> <<>>]
      [] c = 2 -> [type |-> TypeApplication, err |-> "nil", log |-> <<>>]
      [] c = 3 -> [type |-> TypeSeekTable, err |-> "nil", log |-> <<>>]
      [] c = 4 -> [type |-> TypeVorbisComment, err |-> "nil", log |-> <<>>]
      [] c = 5 -> [type |-> TypeCueSheet, err |-> "nil", log |-> <<>>]
      [] c = 6 -> [type |-> TypePicture, err |-> "nil", log |-> <<>>]
      [] OTHER -> IF c >= 7 /\ c <= 126
                  THEN [type |-> TypeReserved, err |-> "nil", log |-> <<c % 256>>]
                  ELSE [type |-> 0, err |-> "invalid block type", log |-> <<>>]

\* ParseBlockHeader on stream s with the cursor at p:
\* the header (or Nil), the error, the new cursor and the log lines written
ParseBlockHeader(s, p) ==
    IF Avail(s, p) < 4
    THEN [h |-> Nil,
          err |-> IF Avail(s, p) = 0 THEN "EOF" ELSE "ErrUnexpectedEOF",
          pos |-> p + Avail(s, p), log |-> <<>>]
    ELSE LET fields == ReadFields(SubSeq(s, p + 1, p + 4))
             bt == BlockTypeOfCode(fields[2])
         IN  IF bt.err # "nil"
             THEN [h |-> Nil, err |-> bt.err, pos |-> p + 4, log |-> bt.log]
             ELSE [h |-> [IsLast |-> fields[1] # 0,
                          BlockType |-> bt.type,
                          Length |-> fields[3]],
                   err |-> "nil", pos |-> p + 4, log |-> bt.log]

----------------------------------------------------------------------------
(* Block.Skip. *)

\* SkipSeek with the seek taken from the start of the stream (os.SEEK_SET)
SkipSeekAbsolute(s, hdr, p) == [err |-> "nil", pos |-> hdr.Length]

\* r.Seek(Length, os.SEEK_CUR): the offset moves, also past the end of the data
SkipSeek(s, hdr, p) == [err |-> "nil", pos |-> p + hdr.Length]

\* io.CopyN(ioutil.Discard, block.r, Length): io.EOF when fewer bytes are copied
SkipCopyN(s, hdr, p) ==
    LET n == Min2(hdr.Length, Avail(s, p))
    IN  [err |-> IF n < hdr.Length THEN "EOF" ELSE "nil", pos |-> p + n]

\* Block.Skip: the seek branch for an io.Seeker, the discard branch otherwise
SkipBody(s, seek, hdr, p) ==
    IF seek THEN SkipSeek(s, hdr, p) ELSE SkipCopyN(s, hdr, p)

----------------------------------------------------------------------------
(* Block.Parse. *)

\* LimitedRead over block.r itself, without the bound
UnlimitedRead(N, want, avail) == Min2(want, avail)

\* bytes obtained by reading want bytes through io.LimitReader(block.r, N)
\* when avail bytes are left in the stream
LimitedRead(N, want, avail) == Min3(want, N, avail)

\* ParseBranch with the case for TypeReserved left out
ParseBranchNoReserved(bt) ==
    CASE bt = TypeStreamInfo -> "ParseStreamInfo"
      [] bt = TypePadding -> "VerifyPadding"
      [] bt = TypeApplication -> "ParseApplication"
      [] bt = TypeSeekTable -> "ParseSeekTable"
      [] bt = TypeVorbisComment -> "ParseVorbisComment"
      [] bt = TypeCueSheet -> "ParseCueSheet"
      [] bt = TypePicture -> "ParsePicture"
      [] OTHER -> "default"

\* the branch of the switch on block.Header.BlockType
ParseBranch(bt) ==
    CASE bt = TypeStreamInfo -> "ParseStreamInfo"
      [] bt = TypePadding -> "VerifyPadding"
      [] bt = TypeApplication -> "ParseApplication"
      [] bt = TypeSeekTable -> "ParseSeekTable"
      [] bt = TypeVorbisComment -> "ParseVorbisComment"
      [] bt = TypeCueSheet -> "ParseCueSheet"
      [] bt = TypePicture -> "ParsePicture"
      [] bt = TypeReserved -> "ReadAll"
      [] OTHER -> "default"

\* ioutil.ReadAll(lr): reads until end of data, which is not an error
ReadAll(s, N, p) ==
    LET n == LimitedRead(N, Avail(s, p) + 1, Avail(s, p))
    IN  [body |-> RawBody(SubSeq(s, p + 1, p + n)), err |-> "nil", n |-> n, eof |-> TRUE]

\* A body decoder over the bounded view.  d.req is the number of bytes it
\* asks for, d.tolerant whether it takes end of data as the end of its input,
\* d.bad whether it rejects the content.
BodyDecoder(d, N, avail) ==
    LET n == LimitedRead(N, d.req, avail)
        eof == n < d.req
    IN  [n |-> n, eof |-> eof,
         err |-> IF eof /\ ~d.tolerant
                 THEN (IF n = 0 THEN "EOF" ELSE "ErrUnexpectedEOF")
                 ELSE IF d.bad THEN "ErrBody" ELSE "nil"]

\* Block.Parse on a block with header hdr, the cursor at p, body decoder d
ParseBody(s, hdr, body, p, d) ==
    LET br == ParseBranch(hdr.BlockType)
        N == hdr.Length
    IN  IF br = "default"
        THEN [body |-> body, err |-> "not yet supported", pos |-> p,
              n |-> 0, eof |-> FALSE, branch |-> br]
        ELSE IF br = "ReadAll"
        THEN LET r == ReadAll(s, N, p)
             IN  [body |-> r.body, err |-> r.err, pos |-> p + r.n,
                  n |-> r.n, eof |-> r.eof, branch |-> br]
        ELSE LET r == BodyDecoder(d, N, Avail(s, p))
             IN  [body |-> IF br = "VerifyPadding" THEN body
                           ELSE IF r.err = "nil" THEN ParsedBody(br) ELSE NilBody,
                  err |-> r.err, pos |-> p + r.n,
                  n |-> r.n, eof |-> r.eof, branch |-> br]

\* the behaviours of a body decoder on a body of declared length L
Decoders(L) ==
    [req : (0..MaxReq) \cup {L, L + 1}, tolerant : BOOLEAN, bad : BOOLEAN]

----------------------------------------------------------------------------
(* The streams.  A layout is the sequence of blocks a stream is written    *)
(* from; the stream is the layout's bytes, followed by the first audio     *)
(* bytes and cut after some byte count.                                    *)

\* the four header bytes of a block: is_last (1 bit), block_type (7), length (24)
Pack(b) ==
    <<b.isLast * 128 + b.code, (b.length \div 65536) % 256,
      (b.length \div 256) % 256, b.length % 256>>

\* the k-th body byte of a block
BodyByte(k) == (17 * k + 5) % 256

\* the first audio bytes, a frame sync code
Audio == [i \in 1..AudioLen |-> IF i = 1 THEN 255 ELSE 248]

\* the first cap bytes of the stream written from layout lay
RECURSIVE Encode(_, _)
Encode(lay, cap) ==
    IF lay = <<>> THEN SubSeq(Audio, 1, Min2(cap, AudioLen))
    ELSE LET b == Head(lay)
             one == Pack(b) \o [k \in 1..Min2(b.length, cap) |-> BodyByte(k)]
         IN  IF Len(one) >= cap THEN SubSeq(one, 1, cap)
             ELSE one \o Encode(Tail(lay), cap - Len(one))

\* the offset of the first audio byte of the stream written from lay
RECURSIVE AudioStart(_)
AudioStart(lay) ==
    IF lay = <<>> THEN 0 ELSE 4 + Head(lay).length + AudioStart(Tail(lay))

Total(lay) == AudioStart(lay) + AudioLen

\* a metadata section as the format defines it: valid type codes, and
\* is_last set on the last block only
ValidLayout(lay) ==
    /\ Len(lay) >= 1
    /\ \A i \in 1..Len(lay) :
          /\ lay[i].code \in 0..126
          /\ (lay[i].isLast = 1) <=> (i = Len(lay))

Blk(l, c, n) == [isLast |-> l, code |-> c, length |-> n]

\* StreamInfo(34), Padding(10), VorbisComment(57)
Scenario == <<Blk(0, 0, 34), Blk(0, 1, 10), Blk(1, 4, 57)>>

\* the declared lengths of the blocks whose header alone is in the stream
HeaderLens == {0, 1, 34, 255, 256, 65535, 65536, MaxLength}

\* the type codes of the blocks whose bodies are enumerated
BodyCodes == {0, 1, 2, 3, 4, 5, 6, 7, 126, 127}

WalkCodes == {0, 1, 7}

HeaderLayouts ==
    {<<Blk(l, c, n)>> : l \in 0..1, c \in 0..127, n \in HeaderLens}

BodyLayouts ==
    {<<Blk(l, c, n)>> : l \in 0..1, c \in BodyCodes, n \in 0..MaxLen}

WalkLayouts ==
    {Scenario} \cup
    {<<Blk(0, c1, n1), Blk(1, c2, n2)>> :
        c1 \in WalkCodes, c2 \in WalkCodes, n1 \in {0, MaxLen}, n2 \in {0, MaxLen}}

\* the byte counts the stream of a layout is cut to
Cuts(lay) ==
    IF lay \in BodyLayouts THEN 0..Total(lay)
    ELSE IF lay \in WalkLayouts THEN {Total(lay)}
    ELSE {4}

Layouts == HeaderLayouts \cup BodyLayouts \cup WalkLayouts

\* the stream holds a whole metadata section and the first audio bytes
WellFormed == ValidLayout(layout) /\ Len(stream) = Total(layout)

----------------------------------------------------------------------------
(* The state after the reader is opened, and the operations. *)

NoDecoder == [req |-> 0, tolerant |-> FALSE, bad |-> FALSE, eof |-> FALSE]

Init ==
    /\ \E lay \in Layouts : \E cut \in Cuts(lay) :
          /\ layout = lay
          /\ stream = Encode(lay, cut)
    /\ seekable \in BOOLEAN
    /\ pos = 0
    /\ pc = "header"
    /\ block = Nil
    /\ hdrOff = 0
    /\ err = "nil"
    /\ diag = <<>>
    /\ headers = <<>>
    /\ lastOp = "open"
    /\ bodyStep = "none"
    /\ nread = 0
    /\ deleg = NoDecoder

\* where the walk goes after a body step on a block with header hdr
AfterBody(hdr, e) ==
    IF e # "nil" THEN "aborted" ELSE IF hdr.IsLast THEN "done" ELSE "header"

\* NewBlock(r)
NewBlock ==
    /\ pc = "header"
    /\ \E r \in {ParseBlockHeader(stream, pos)} :
           /\ hdrOff' = pos
           /\ pos' = r.pos
           /\ err' = r.err
           /\ diag' = diag \o r.log
           /\ block' = IF r.err # "nil" THEN Nil
                       ELSE [Header |-> r.h, Body |-> NilBody]
           /\ headers' = IF r.err # "nil" THEN headers ELSE Append(headers, r.h)
           /\ pc' = IF r.err # "nil" THEN "aborted" ELSE "body"
    /\ lastOp' = "NewBlock"
    /\ bodyStep' = "none"
    /\ nread' = 0
    /\ deleg' = NoDecoder
    /\ UNCHANGED <<stream, seekable, layout>>

\* block.Parse()
Parse ==
    /\ pc = "body"
    /\ \E d \in Decoders(block.Header.Length) :
          \E r \in {ParseBody(stream, block.Header, block.Body, pos, d)} :
              /\ pos' = r.pos
              /\ err' = r.err
              /\ block' = [block EXCEPT !.Body = r.body]
              /\ nread' = r.n
              /\ deleg' = IF r.branch \in {"ReadAll", "default"} THEN NoDecoder
                          ELSE [req |-> d.req, tolerant |-> d.tolerant,
                                bad |-> d.bad, eof |-> r.eof]
              /\ pc' = AfterBody(block.Header, r.err)
    /\ lastOp' = "Parse"
    /\ bodyStep' = "Parse"
    /\ UNCHANGED <<stream, seekable, layout, hdrOff, diag, headers>>

\* block.Skip()
Skip ==
    /\ pc = "body"
    /\ \E r \in {SkipBody(stream, seekable, block.Header, pos)} :
           /\ pos' = r.pos
           /\ err' = r.err
           /\ pc' = AfterBody(block.Header, r.err)
    /\ lastOp' = "Skip"
    /\ bodyStep' = "Skip"
    /\ nread' = 0
    /\ deleg' = NoDecoder
    /\ UNCHANGED <<stream, seekable, layout, block, hdrOff, diag, headers>>

\* ParseBlock(r): NewBlock, then block.Parse(); no block when either fails
ParseBlock ==
    /\ pc = "header"
    /\ \E h \in {ParseBlockHeader(stream, pos)} :
           /\ hdrOff' = pos
           /\ diag' = diag \o h.log
           /\ IF h.err # "nil"
              THEN /\ pos' = h.pos
                   /\ err' = h.err
                   /\ block' = Nil
                   /\ headers' = headers
                   /\ pc' = "aborted"
                   /\ bodyStep' = "none"
                   /\ nread' = 0
                   /\ deleg' = NoDecoder
              ELSE \E d \in Decoders(h.h.Length) :
                      \E r \in {ParseBody(stream, h.h, NilBody, h.pos, d)} :
                          /\ pos' = r.pos
                          /\ err' = r.err
                          /\ block' = IF r.err # "nil" THEN Nil
                                      ELSE [Header |-> h.h, Body |-> r.body]
                          /\ headers' = Append(headers, h.h)
                          /\ pc' = AfterBody(h.h, r.err)
                          /\ bodyStep' = "Parse"
                          /\ nread' = r.n
                          /\ deleg' = IF r.branch \in {"ReadAll", "default"}
                                      THEN NoDecoder
                                      ELSE [req |-> d.req, tolerant |-> d.tolerant,
                                            bad |-> d.bad, eof |-> r.eof]
    /\ lastOp' = "ParseBlock"
    /\ UNCHANGED <<stream, seekable, layout>>

Next == NewBlock \/ Parse \/ Skip \/ ParseBlock

Spec == Init /\ [][Next]_vars

----------------------------------------------------------------------------
(* What the properties below speak about. *)

\* the header of the block the last operation worked on
CurHeader == headers[Len(headers)]

\* the declared body length L of that block
CurLen == CurHeader.Length

\* the last operation decoded a header
HeaderDone == lastOp \in {"NewBlock", "ParseBlock"}

\* the last operation decoded a header without error
HeaderOK ==
    \/ lastOp = "NewBlock" /\ err = "nil"
    \/ lastOp = "ParseBlock" /\ bodyStep = "Parse"

\* the last operation was a body step (Parse, also inside ParseBlock)
ParseDone == bodyStep = "Parse"

SkipDone == bodyStep = "Skip"

\* the four bytes at the header offset, when the stream holds them
HasHeaderBytes == Avail(stream, hdrOff) >= 4

HdrByte(i) == stream[hdrOff + i]

\* the triple the four bytes pack, MSB first
PackedIsLast == HdrByte(1) \div 128

PackedCode == HdrByte(1) % 128

PackedLength == HdrByte(2) * 65536 + HdrByte(3) * 256 + HdrByte(4)

\* the type the format gives a code
TypeOfKnownCode(c) ==
    CASE c = 0 -> TypeStreamInfo
      [] c = 1 -> TypePadding
      [] c = 2 -> TypeApplication
      [] c = 3 -> TypeSeekTable
      [] c = 4 -> TypeVorbisComment
      [] c = 5 -> TypeCueSheet
      [] c = 6 -> TypePicture

\* the offset of the first byte after the body of the current block
NextHeader == hdrOff + 4 + CurLen

\* bytes of the body of the current block that the stream holds
BodyPresent == Min2(CurLen, Avail(stream, hdrOff + 4))

----------------------------------------------------------------------------
(* Properties of ParseBlockHeader, NewBlock and ParseBlock. *)

\* C2: whenever the four bytes at the header offset pack (isLast, code,
\* length) with a code in 0..6, decoding succeeds and the header is exactly
\* that triple: IsLast iff the bit is 1, the type mapped to the code, and
\* the 24-bit length.
C2_HeaderRoundTrip ==
    (HeaderDone /\ HasHeaderBytes /\ PackedCode \in 0..6) =>
        /\ HeaderOK
        /\ CurHeader = [IsLast |-> PackedIsLast = 1,
                        BlockType |-> TypeOfKnownCode(PackedCode),
                        Length |-> PackedLength]
        /\ (lastOp = "NewBlock" => block.Header = CurHeader)

\* a Picture header with is_last set and the largest length has been decoded
C2_Witness ==
    /\ lastOp = "NewBlock" /\ err = "nil" /\ hdrOff = 0
    /\ layout = <<Blk(1, 6, MaxLength)>>
    /\ block.Header = [IsLast |-> TRUE, BlockType |-> TypePicture,
                       Length |-> MaxLength]

\* C3: a header whose type code is 127 makes the decode fail with the
\* invalid-block-type error whatever the other bits are; NewBlock and
\* ParseBlock return no block and no body step is performed (nothing is read
\* after the four header bytes).
C3_InvalidCode ==
    (HeaderDone /\ HasHeaderBytes /\ PackedCode = 127) =>
        /\ err = "invalid block type"
        /\ ~HeaderOK
        /\ block = Nil
        /\ bodyStep = "none"
        /\ nread = 0
        /\ pos = hdrOff + 4
        /\ pc = "aborted"

\* ParseBlock has met code 127 with is_last set and all length bits set
C3_Witness ==
    /\ lastOp = "ParseBlock" /\ HasHeaderBytes
    /\ PackedCode = 127 /\ PackedIsLast = 1 /\ PackedLength = MaxLength
    /\ err = "invalid block type" /\ block = Nil

\* C4: a step that decodes a header with a code c in 7..126 succeeds with
\* BlockType Reserved and appends one diagnostic carrying c; a step that
\* decodes a header with a code in 0..6 appends no diagnostic.
C4_ReservedDiagnostic ==
    [][(pc = "header" /\ Avail(stream, pos) >= 4) =>
          LET c == stream[pos + 1] % 128
          IN  /\ c \in 7..126 =>
                    /\ diag' = Append(diag, c)
                    /\ Len(headers') = Len(headers) + 1
                    /\ headers'[Len(headers')].BlockType = TypeReserved
                    /\ (lastOp' = "NewBlock" => err' = "nil")
              /\ c \in 0..6 => diag' = diag]_vars

\* a header with code 126 has been decoded and the diagnostic names 126
C4_Witness ==
    /\ HeaderOK /\ HasHeaderBytes /\ PackedCode = 126
    /\ CurHeader.BlockType = TypeReserved
    /\ diag = <<126>>

----------------------------------------------------------------------------
(* Properties of Block.Parse and Block.Skip. *)

\* C1: whenever Parse or Skip returns without error, the cursor is at
\* H + 4 + L, the first byte of the next block's header.
C1_CursorAtNextHeader ==
    ((ParseDone \/ SkipDone) /\ err = "nil") => pos = NextHeader

\* C5 as stated: for every stream content, Skip over a seekable and over a
\* non-seekable backing store both succeed and end at H + 4 + L.
C5_SkipSameOutcome ==
    SkipDone =>
        LET a == SkipSeek(stream, CurHeader, hdrOff + 4)
            b == SkipCopyN(stream, CurHeader, hdrOff + 4)
        IN  /\ a = b
            /\ a.err = "nil" /\ a.pos = NextHeader
            /\ err = "nil" /\ pos = NextHeader

\* C5 amended: when the stream holds all L body bytes of the block, Skip
\* over a seekable and over a non-seekable backing store both succeed and
\* end at H + 4 + L.
C5_SkipSameWhenPresent ==
    (SkipDone /\ BodyPresent = CurLen) =>
        LET a == SkipSeek(stream, CurHeader, hdrOff + 4)
            b == SkipCopyN(stream, CurHeader, hdrOff + 4)
        IN  /\ a = b
            /\ a.err = "nil" /\ a.pos = NextHeader
            /\ err = "nil" /\ pos = NextHeader

\* the 57-byte body of the last block of the scenario has been skipped by
\* read-and-discard
C5_Witness ==
    /\ SkipDone /\ ~seekable /\ layout = Scenario
    /\ CurLen = 57 /\ BodyPresent = 57
    /\ err = "nil" /\ pos = NextHeader

\* C6: Skip fails whenever the stream holds fewer than L bytes after the
\* header, on a seekable store as well as on a non-seekable one.
C6_SkipFailsOnShortBody ==
    (SkipDone /\ BodyPresent < CurLen) => err # "nil"

\* C7: during Parse at most L bytes are read from the stream, the cursor
\* ends where the bytes read end and never past H + 4 + L, and a body
\* decoder that asks for more than L bytes meets end of data.
C7_BoundedView ==
    ParseDone =>
        /\ nread <= CurLen
        /\ pos = hdrOff + 4 + nread
        /\ pos <= NextHeader
        /\ (deleg.req > CurLen => deleg.eof)

\* a body decoder has asked for more than L bytes, got exactly L, and the
\* stream holds more bytes after the body
C7_Witness ==
    /\ ParseDone /\ CurLen > 0
    /\ deleg.req > CurLen /\ deleg.eof
    /\ nread = CurLen /\ pos = NextHeader
    /\ Avail(stream, pos) > 0

\* the header the format defines for a block of a layout
ExpectedHeader(b) ==
    [IsLast |-> b.isLast = 1,
     BlockType |-> IF b.code <= 6 THEN TypeOfKnownCode(b.code) ELSE TypeReserved,
     Length |-> b.length]

\* C8: a walk over a well-formed metadata section that has processed the
\* block with IsLast set has decoded the headers of the section in stream
\* order, and the cursor is at the first audio byte, whichever of Parse and
\* Skip was taken for each block.
C8_WalkEndsAtAudio ==
    (WellFormed /\ pc = "done") =>
        /\ pos = AudioStart(layout)
        /\ Len(headers) = Len(layout)
        /\ \A i \in 1..Len(layout) : headers[i] = ExpectedHeader(layout[i])

\* C9: when Parse of a Reserved block succeeds, Body is the L bytes that
\* follow the header, in stream order; when the stream holds fewer than L
\* body bytes, Parse fails.
C9_ReservedVerbatim ==
    (ParseDone /\ CurHeader.BlockType = TypeReserved) =>
        /\ err = "nil" =>
              /\ block.Body.kind = "raw"
              /\ Len(block.Body.raw) = CurLen
              /\ \A k \in 1..CurLen : block.Body.raw[k] = stream[hdrOff + 4 + k]
        /\ BodyPresent < CurLen => err # "nil"

\* C10: every block type a decoded header carries has a dispatch branch of
\* its own in Parse, no two of the types share one, and Parse never returns
\* the unsupported-type error of the default branch.
C10_DispatchTotal ==
    /\ \A i \in 1..Len(headers) :
          /\ headers[i].BlockType \in BlockTypes
          /\ ParseBranch(headers[i].BlockType) # "default"
    /\ \A i, j \in 1..Len(headers) :
          ParseBranch(headers[i].BlockType) = ParseBranch(headers[j].BlockType)
              => headers[i].BlockType = headers[j].BlockType
    /\ ParseDone => err # "not yet supported"

\* Parse has succeeded on a Reserved block after a block of another type
C10_Witness ==
    /\ lastOp = "Parse" /\ err = "nil"
    /\ Len(headers) = 2
    /\ headers[1].BlockType = TypeStreamInfo
    /\ headers[2].BlockType = TypeReserved
    /\ block.Body.kind = "raw" /\ Len(block.Body.raw) = CurLen /\ CurLen > 0

====
